---------------------------- MODULE Spec2Model ----------------------------
(***************************************************************************)
(* ColoSwitch (src/app.py): dominant-colour extraction, colour-code        *)
(* parsing and tolerance-based colour replacement.                         *)
(*                                                                         *)
(* Python values are modelled as follows.                                  *)
(*   str        [t |-> "str", s |-> <<"#", "f", ...>>]  (one character per *)
(*              element, because a TLA+ string cannot be indexed)          *)
(*   None       [t |-> "NoneType"]                                         *)
(*   a call     [kind |-> "return", value |-> v]  or                       *)
(*              [kind |-> "raise", exc |-> <class name>, msg |-> <chars>]   *)
(*   PIL image  [t |-> "Image", arr |-> rows], rows a sequence of rows,    *)
(*              each a sequence of pixels <<r, g, b, a>>                   *)
(***************************************************************************)
EXTENDS Integers, Sequences, FiniteSets, TLC

VARIABLES
    pc,     \* "call": the function has been called; "done": it has returned or raised
    fn,     \* the function of src/app.py the call is of
    args,   \* the call's arguments, by the names the source gives them
    form,   \* how the arguments were put together (read by the properties only)
    ret     \* the call's outcome

vars == <<pc, fn, args, form, ret>>

----------------------------------------------------------------------------
(* Python values *)

Str(s) == [t |-> "str", s |-> s]

None == [t |-> "NoneType"]

IsStr(v) == v.t = "str"

IsNone(v) == v.t = "NoneType"

(* a PIL image in mode RGBA: arr is np.array(image), a sequence of rows, each a
   sequence of pixels <<r, g, b, a>> *)
Image(arr) == [t |-> "Image", arr |-> arr]

IsImage(v) == v.t = "Image"

Return(v) == [kind |-> "return", value |-> v]

Raise(exc, msg) == [kind |-> "raise", exc |-> exc, msg |-> msg]

NoResult == [kind |-> "pending"]

Returned(r) == r.kind = "return"

Raised(r) == r.kind = "raise"

(* s[i:j] of a Python sequence, 0-based, clipped to the sequence as Python clips it *)
Slice(s, i, j) ==
    LET hi == IF j < Len(s) THEN j ELSE Len(s)
    IN  IF i >= hi THEN <<>> ELSE [k \in 1..(hi - i) |-> s[i + k]]

DigitChars == <<"0", "1", "2", "3", "4", "5", "6", "7", "8", "9">>

HexChars == DigitChars \o <<"a", "b", "c", "d", "e", "f">>

UpperHexChars == DigitChars \o <<"A", "B", "C", "D", "E", "F">>

IsDigit(c) == \E i \in 1..10 : DigitChars[i] = c

DigitVal(c) == (CHOOSE i \in 1..10 : DigitChars[i] = c) - 1

(* the whitespace class of the re module, on the ASCII characters *)
IsSpace(c) == c \in {" ", "\t", "\n", "\r", "\f"}

(* format(n, "02x") for n >= 0: lowercase hexadecimal, zero-padded to at least two
   digits and never cut: 300 gives "12c" *)
RECURSIVE HexDigitsOf(_)
HexDigitsOf(n) ==
    IF n < 16 THEN <<HexChars[n + 1]>>
    ELSE HexDigitsOf(n \div 16) \o <<HexChars[(n % 16) + 1]>>

Format02x(n) ==
    LET d == HexDigitsOf(n)
    IN  IF Len(d) < 2 THEN <<"0">> \o d ELSE d

(* f"#{r:02x}{g:02x}{b:02x}" (lines 24 and 34) *)
FormatHexColor(r, g, b) == <<"#">> \o Format02x(r) \o Format02x(g) \o Format02x(b)

----------------------------------------------------------------------------
(* parse_color_code (lines 27-36) *)

(* the first position at or after i that holds no digit: where a greedy run of
   digits ends *)
RECURSIVE SkipDigits(_, _)
SkipDigits(s, i) ==
    IF i <= Len(s) /\ IsDigit(s[i]) THEN SkipDigits(s, i + 1) ELSE i

(* where a greedy run of whitespace ends *)
RECURSIVE SkipSpaces(_, _)
SkipSpaces(s, i) ==
    IF i <= Len(s) /\ IsSpace(s[i]) THEN SkipSpaces(s, i + 1) ELSE i

(* the literal lit at position i of s: the position after it, or 0 *)
MatchLiteral(s, i, lit) ==
    IF i > 0 /\ i + Len(lit) - 1 <= Len(s)
          /\ \A k \in 1..Len(lit) : s[i + k - 1] = lit[k]
    THEN i + Len(lit) ELSE 0

(* One group of the pattern of line 31, at position i of s: one or more digits,
   an optional dot, any number of digits.  The position after it, or 0.  Each part
   is greedy; giving a character back never helps, because what follows the group
   in the pattern is a comma, which none of the parts matches. *)
MatchNumber(s, i) ==
    IF i = 0 THEN 0
    ELSE LET j == SkipDigits(s, i)
         IN  IF j = i THEN 0
             ELSE LET k == IF j <= Len(s) /\ s[j] = "." THEN j + 1 ELSE j
                  IN  SkipDigits(s, k)

(* the comma and the optional whitespace between two groups *)
MatchSeparator(s, i) ==
    LET j == MatchLiteral(s, i, <<",">>)
    IN  IF j = 0 THEN 0 ELSE SkipSpaces(s, j)

NoMatch == <<>>

(* re.match(pattern, s).groups() for the pattern of line 31, or NoMatch: "rgb",
   an optional "a", "(", then three groups separated by a comma and optional
   whitespace.  re.match anchors the pattern at the start of s and nowhere else:
   whatever follows the third group is not looked at. *)
ReMatch(s) ==
    LET p1 == MatchLiteral(s, 1, <<"r", "g", "b">>)
        p2 == IF p1 # 0 /\ p1 <= Len(s) /\ s[p1] = "a" THEN p1 + 1 ELSE p1
        p3 == MatchLiteral(s, p2, <<"(">>)
        r1 == MatchNumber(s, p3)
        g0 == MatchSeparator(s, r1)
        g1 == MatchNumber(s, g0)
        b0 == MatchSeparator(s, g1)
        b1 == MatchNumber(s, b0)
    IN  IF b1 = 0 THEN NoMatch
        ELSE <<Slice(s, p3 - 1, r1 - 1), Slice(s, g0 - 1, g1 - 1), Slice(s, b0 - 1, b1 - 1)>>

RECURSIVE DigitsValue(_)
DigitsValue(d) ==
    IF d = <<>> THEN 0
    ELSE 10 * DigitsValue(SubSeq(d, 1, Len(d) - 1)) + DigitVal(d[Len(d)])

RECURSIVE Pow10(_)
Pow10(n) == IF n = 0 THEN 1 ELSE 10 * Pow10(n - 1)

(* float(x) of a matched group, kept as the fraction num / den; exact for the
   short groups of this model (a double holds 15 significant decimal digits) *)
Float(x) ==
    LET dot  == SkipDigits(x, 1)
        frac == IF dot <= Len(x) THEN SubSeq(x, dot + 1, Len(x)) ELSE <<>>
    IN  [num |-> DigitsValue(SubSeq(x, 1, dot - 1) \o frac), den |-> Pow10(Len(frac))]

(* a variant of IntOfFloat: round to the nearest whole number *)
IntOfFloatRounded(f) == (2 * f.num + f.den) \div (2 * f.den)

(* int(f) of a float f >= 0: truncation toward zero *)
IntOfFloat(f) == f.num \div f.den

(* the ValueError's message, f"...: {color}" (line 36); the Japanese text is
   written here in ASCII *)
InvalidColorCodeText == <<"b", "a", "d", " ", "c", "o", "l", "o", "r", ":", " ">>

ReTypeErrorText == <<"e", "x", "p", "e", "c", "t", "e", "d", " ", "s", "t", "r">>

parse_color_code(color) ==
    IF IsStr(color) /\ Len(color.s) >= 1 /\ color.s[1] = "#" /\ Len(color.s) = 7
    THEN Return(color)
    ELSE IF ~IsStr(color)
         \* re.match raises TypeError on an argument that is no string
         THEN Raise("TypeError", ReTypeErrorText)
         ELSE LET match == ReMatch(color.s)
              IN  IF match # NoMatch
                  THEN LET r == IntOfFloat(Float(match[1]))
                           g == IntOfFloat(Float(match[2]))
                           b == IntOfFloat(Float(match[3]))
                       IN  Return(Str(FormatHexColor(r, g, b)))
                  ELSE Raise("ValueError", InvalidColorCodeText \o color.s)


----------------------------------------------------------------------------
(* The calls of parse_color_code that are checked.  A color is put together from
   the parts of `form`; a token's val is the number its text denotes, truncated
   toward zero, written down here and not computed by the parser. *)

RTokens ==
    { [text |-> <<"0">>, val |-> 0, numeric |-> TRUE],
      [text |-> <<"2", "6">>, val |-> 26, numeric |-> TRUE],
      [text |-> <<"2", "5", "5">>, val |-> 255, numeric |-> TRUE],
      [text |-> <<"2", "6", ".", "5">>, val |-> 26, numeric |-> TRUE],
      [text |-> <<"2", "6", ".">>, val |-> 26, numeric |-> TRUE],
      [text |-> <<"0", ".", "9">>, val |-> 0, numeric |-> TRUE],
      [text |-> <<"0", "9">>, val |-> 9, numeric |-> TRUE],
      [text |-> <<"3", "0", "0">>, val |-> 300, numeric |-> TRUE],
      [text |-> <<".", "5">>, val |-> 0, numeric |-> FALSE],
      [text |-> <<"-", "1">>, val |-> 0, numeric |-> FALSE],
      [text |-> <<>>, val |-> 0, numeric |-> FALSE],
      [text |-> <<"1", "e", "2">>, val |-> 0, numeric |-> FALSE] }

GTokens ==
    { [text |-> <<"4", "3">>, val |-> 43, numeric |-> TRUE],
      [text |-> <<"4", ".", "9">>, val |-> 4, numeric |-> TRUE],
      [text |-> <<"2", "5", "6">>, val |-> 256, numeric |-> TRUE],
      [text |-> <<"x">>, val |-> 0, numeric |-> FALSE] }

BTokens ==
    { [text |-> <<"6", "0">>, val |-> 60, numeric |-> TRUE],
      [text |-> <<"1", "5", ".", "9", "9">>, val |-> 15, numeric |-> TRUE],
      [text |-> <<"6", "x">>, val |-> 0, numeric |-> FALSE],
      [text |-> <<>>, val |-> 0, numeric |-> FALSE] }

Prefixes == { <<"r", "g", "b", "(">>, <<"r", "g", "b", "a", "(">>, <<"r", "g", "b">>, <<"R", "G", "B", "(">>, <<" ", "r", "g", "b", "(">> }

Separators == { <<",">>, <<",", " ">>, <<",", "\t", " ">>, <<" ", ",">> }

Tails == { <<")">>, <<",", " ", "0", ".", "5", ")">>, <<>>, <<")", "x">> }

FuncForms ==
    [kind : {"func"}, prefix : Prefixes, r : RTokens, g : GTokens, b : BTokens,
     sep : Separators, tail : Tails]

HashLetters == {"1", "c", "Z"}

HashForms == [kind : {"hash"}, word : [1..6 -> HashLetters]]

OtherColors ==
    { <<"n", "o", "t", "-", "a", "-", "c", "o", "l", "o", "r">>,
      <<"#", "f", "f", "f">>,
      <<"#", "1", "a", "2", "b", "3", "c", "4">>,
      <<"1", "a", "2", "b", "3", "c">>,
      <<>>,
      <<"#">>,
      <<"#", "1", "a", "2", "b", "3", "c">>,
      <<"#", "z", "z", "z", "z", "z", "z">>,
      <<"#", "-", "1", "-", "1", "-", "1">> }

OtherForms == [kind : {"other"}, color : {None} \cup {Str(s) : s \in OtherColors}]

ParseForms == FuncForms \cup HashForms \cup OtherForms

ColorOf(f) ==
    CASE f.kind = "func" ->
           Str(f.prefix \o f.r.text \o f.sep \o f.g.text \o f.sep \o f.b.text \o f.tail)
      [] f.kind = "hash" -> Str(<<"#">> \o f.word)
      [] OTHER -> f.color

InitParse ==
    /\ pc = "call"
    /\ fn = "parse_color_code"
    /\ form \in ParseForms
    /\ args = [color |-> ColorOf(form)]
    /\ ret = NoResult

ParseColorCode ==
    /\ pc = "call"
    /\ fn = "parse_color_code"
    /\ ret' = parse_color_code(args.color)
    /\ pc' = "done"
    /\ UNCHANGED <<fn, args, form>>

NextParse == ParseColorCode

SpecParse == InitParse /\ [][NextParse]_vars

----------------------------------------------------------------------------
(* replace_color_with_tolerance (lines 39-59) *)

IsHexChar(c) == \E i \in 1..16 : HexChars[i] = c \/ UpperHexChars[i] = c

HexVal(c) == (CHOOSE i \in 1..16 : HexChars[i] = c \/ UpperHexChars[i] = c) - 1

RECURSIVE HexValue(_)
HexValue(d) ==
    IF d = <<>> THEN 0
    ELSE 16 * HexValue(SubSeq(d, 1, Len(d) - 1)) + HexVal(d[Len(d)])

(* x.strip() *)
RECURSIVE Strip(_)
Strip(x) ==
    IF x = <<>> THEN x
    ELSE IF IsSpace(x[1]) THEN Strip(Tail(x))
    ELSE IF IsSpace(x[Len(x)]) THEN Strip(SubSeq(x, 1, Len(x) - 1))
    ELSE x

(* int(x, 16) of a string x of at most two characters (a slice color[i:i+2]):
   [ok |-> TRUE, v |-> the number], or [ok |-> FALSE] where int raises ValueError.
   int strips whitespace around the number and takes a sign before the digits and
   digits of either case: int("-1", 16) is -1 and int(" f", 16) is 15.  The "0x"
   prefix and the "_" between digits that int also takes need three characters. *)
IntBase16(x) ==
    LET y      == Strip(x)
        signed == y # <<>> /\ y[1] \in {"+", "-"}
        digits == IF signed THEN Tail(y) ELSE y
    IN  IF digits = <<>> \/ \E k \in 1..Len(digits) : ~IsHexChar(digits[k])
        THEN [ok |-> FALSE]
        ELSE [ok |-> TRUE,
              v  |-> IF y[1] = "-" THEN 0 - HexValue(digits) ELSE HexValue(digits)]

(* [int(color[i:i+2], 16) for i in (1, 3, 5)] (lines 43 and 44) *)
HexChannels(color) ==
    [k \in 1..3 |-> IntBase16(Slice(color, 2 * k - 1, 2 * k + 1))]

(* a variant of DistanceSq: the blue channel is left out of the sum *)
DistanceSqRedGreen(px, c) ==
    (px[1] - c[1]) * (px[1] - c[1]) + (px[2] - c[2]) * (px[2] - c[2])

(* np.sum(diff ** 2, axis=2) at one pixel (lines 49 and 50): diff is int64, because
   the array of r1, g1, b1 is, so nothing wraps *)
DistanceSq(px, c) ==
    (px[1] - c[1]) * (px[1] - c[1]) + (px[2] - c[2]) * (px[2] - c[2])
        + (px[3] - c[3]) * (px[3] - c[3])

(* a variant of WithinTolerance: < in place of <= *)
WithinToleranceStrict(dsq, tolerance) == tolerance >= 0 /\ dsq < tolerance * tolerance

(* np.sqrt(dsq) <= tolerance (lines 50 and 53) for a whole tolerance.  np.sqrt is
   correctly rounded and the sums are below 2^53, so the square root of a perfect
   square is exact and that of any other sum stays on its side of every whole
   number: the comparison is the one of the squares.  No distance is <= a negative
   tolerance. *)
WithinTolerance(dsq, tolerance) == tolerance >= 0 /\ dsq <= tolerance * tolerance

(* a variant of Mask: the alpha test is left out *)
MaskIgnoringAlpha(px, c, tolerance) == tolerance >= 0 /\ DistanceSq(px, c) <= tolerance * tolerance

(* mask at one pixel (line 53) *)
Mask(px, c, tolerance) == WithinTolerance(DistanceSq(px, c), tolerance) /\ px[4] > 0

(* a variant of Recolor: the whole pixel is written, alpha 255 included *)
RecolorOpaque(px, c) == <<c[1], c[2], c[3], 255>>

(* arr[mask, 0] = r2; arr[mask, 1] = g2; arr[mask, 2] = b2 at one masked pixel
   (lines 55-57) *)
Recolor(px, c) == <<c[1], c[2], c[3], px[4]>>

(* What storing a negative Python int in a uint8 array does depends on the NumPy
   installed: NumPy 2 raises OverflowError, NumPy 1 stores it modulo 256. *)
OverflowPolicies == {"raise", "wrap"}

Uint8(n) == n % 256

AllOk(c) == \A k \in 1..3 : c[k].ok

Values(c) == [k \in 1..3 |-> c[k].v]

replace_color_with_tolerance(image, color_from, color_to, tolerance, overflow) ==
    IF ~IsImage(image)
    THEN Raise("AttributeError", <<>>)              \* None.convert (line 40)
    ELSE IF ~IsStr(color_from)
    THEN Raise("TypeError", <<>>)                   \* None[1:3] (line 43)
    ELSE IF ~AllOk(HexChannels(color_from.s))
    THEN Raise("ValueError", <<>>)                  \* int(..., 16) (line 43)
    ELSE IF ~IsStr(color_to)
    THEN Raise("TypeError", <<>>)                   \* line 44
    ELSE IF ~AllOk(HexChannels(color_to.s))
    THEN Raise("ValueError", <<>>)                  \* line 44
    ELSE
    LET c1 == Values(HexChannels(color_from.s))
        c2 == Values(HexChannels(color_to.s))
    IN  IF overflow = "raise" /\ \E k \in 1..3 : c2[k] < 0
        THEN Raise("OverflowError", <<>>)           \* lines 55-57
        ELSE
        LET stored == [k \in 1..3 |-> Uint8(c2[k])]
            arr    == image.arr
        IN  Return(Image([i \in DOMAIN arr |->
                            [j \in DOMAIN arr[i] |->
                               IF Mask(arr[i][j], c1, tolerance)
                               THEN Recolor(arr[i][j], stored)
                               ELSE arr[i][j]]]))

----------------------------------------------------------------------------
(* The calls of replace_color_with_tolerance that are checked.  A colour's rgb is
   the triple its text denotes, written down here and not computed by the decoder;
   canonical says that the text is "#" and six lowercase hexadecimal digits. *)

FromColors ==
    { [text |-> <<"#", "0", "0", "0", "0", "0", "0">>, rgb |-> <<0, 0, 0>>, canonical |-> TRUE],
      [text |-> <<"#", "f", "f", "0", "0", "0", "0">>, rgb |-> <<255, 0, 0>>, canonical |-> TRUE],
      [text |-> <<"#", "0", "3", "0", "4", "0", "0">>, rgb |-> <<3, 4, 0>>, canonical |-> TRUE],
      [text |-> <<"#", "z", "z", "z", "z", "z", "z">>, rgb |-> <<0, 0, 0>>, canonical |-> FALSE],
      [text |-> <<"#", "-", "1", "-", "1", "-", "1">>, rgb |-> <<-1, -1, -1>>, canonical |-> FALSE] }

ToColors ==
    { [text |-> <<"#", "0", "0", "0", "0", "f", "f">>, rgb |-> <<0, 0, 255>>, canonical |-> TRUE],
      [text |-> <<"#", "0", "0", "0", "0", "0", "0">>, rgb |-> <<0, 0, 0>>, canonical |-> TRUE],
      [text |-> <<"#", "f", "f", "0", "0", "0", "0">>, rgb |-> <<255, 0, 0>>, canonical |-> TRUE],
      [text |-> <<"#", "-", "1", "-", "1", "-", "1">>, rgb |-> <<-1, -1, -1>>, canonical |-> FALSE],
      [text |-> <<"#", "1", "2", "c", "0", "0", "0", "0">>, rgb |-> <<18, 192, 0>>, canonical |-> FALSE] }

(* RGBA pixels: at distance 0, 5 and sqrt(26) from #000000 and sqrt(75) from
   #ff0000, opaque, partly transparent and fully transparent *)
Pixels ==
    { <<0, 0, 0, 255>>, <<3, 4, 0, 255>>, <<3, 4, 1, 255>>, <<3, 4, 0, 0>>,
      <<255, 0, 0, 255>>, <<250, 5, 5, 255>>, <<3, 4, 0, 128>>, <<0, 0, 255, 1>> }

Tolerances == {0, 4, 5, 8, 9, 100}

MaxHeight == 2

MaxWidth == 2

(* the h x w image that holds p where row + column is even and q elsewhere *)
Checkered(h, w, p, q) ==
    Image([i \in 1..h |-> [j \in 1..w |-> IF (i + j) % 2 = 0 THEN p ELSE q]])

ImageForms == [h : 1..MaxHeight, w : 1..MaxWidth, p : Pixels, q : Pixels]

ImageOf(f) == Checkered(f.h, f.w, f.p, f.q)

InitReplace ==
    /\ pc = "call"
    /\ fn = "replace_color_with_tolerance"
    /\ form \in [image : ImageForms, from : FromColors, to : ToColors]
    /\ \E tolerance \in Tolerances :
          args = [image      |-> ImageOf(form.image),
                  color_from |-> Str(form.from.text),
                  color_to   |-> Str(form.to.text),
                  tolerance  |-> tolerance]
    /\ ret = NoResult

ReplaceColorWithTolerance ==
    /\ pc = "call"
    /\ fn = "replace_color_with_tolerance"
    /\ \E overflow \in OverflowPolicies :
          ret' = replace_color_with_tolerance(args.image, args.color_from,
                                              args.color_to, args.tolerance, overflow)
    /\ pc' = "done"
    /\ UNCHANGED <<fn, args, form>>

NextReplace == ReplaceColorWithTolerance

SpecReplace == InitReplace /\ [][NextReplace]_vars

----------------------------------------------------------------------------
(* get_colors (lines 9-24) and extract_and_return_choices (lines 79-83) *)

(* arr.reshape(-1, 4): the rows of an array one after the other *)
RECURSIVE Flatten(_)
Flatten(rows) == IF rows = <<>> THEN <<>> ELSE Head(rows) \o Flatten(Tail(rows))

RGB(px) == <<px[1], px[2], px[3]>>

(* a variant of SampleMask: every pixel is sampled *)
SampleMaskAll(px) == px[4] >= 0

(* mask = alpha > 0 (line 15) *)
SampleMask(px) == px[4] > 0

(* rgb[mask] (line 16): the RGB of the masked pixels, in the array's order *)
RECURSIVE Filtered(_)
Filtered(pixels) ==
    IF pixels = <<>> THEN <<>>
    ELSE IF SampleMask(Head(pixels)) THEN <<RGB(Head(pixels))>> \o Filtered(Tail(pixels))
    ELSE Filtered(Tail(pixels))

(* the order np.unique(axis=0) sorts rows in: by r, then g, then b *)
LexLess(u, v) ==
    \/ u[1] < v[1]
    \/ u[1] = v[1] /\ u[2] < v[2]
    \/ u[1] = v[1] /\ u[2] = v[2] /\ u[3] < v[3]

RECURSIVE SortedRows(_)
SortedRows(S) ==
    IF S = {} THEN <<>>
    ELSE LET least == CHOOSE u \in S : \A v \in S \ {u} : LexLess(u, v)
         IN  <<least>> \o SortedRows(S \ {least})

(* unique of np.unique(rows, axis=0, return_counts=True) (line 21) *)
Unique(rows) == SortedRows({rows[k] : k \in DOMAIN rows})

(* counts of the same call: how often each unique row occurs *)
Counts(rows) ==
    LET unique == Unique(rows)
    IN  [u \in DOMAIN unique |-> Cardinality({k \in DOMAIN rows : rows[k] = unique[u]})]

(* The results counts.argsort() (line 22) can have: the orders of the indices in
   which counts never decreases.  argsort's default kind is an unstable sort, so
   indices of equal count come in any order (indices are 1-based here). *)
RECURSIVE AscendingOrders(_, _)
AscendingOrders(counts, S) ==
    IF S = {} THEN {<<>>}
    ELSE LET least == {i \in S : \A k \in S : counts[i] <= counts[k]}
         IN  UNION {{<<i>> \o rest : rest \in AscendingOrders(counts, S \ {i})} : i \in least}

ArgsortResults(counts) == AscendingOrders(counts, DOMAIN counts)

TopN == 10

(* a variant of LastN: order[:10], the first ten *)
FirstN(order) == Slice(order, 0, TopN)

(* order[-10:] (line 22): the last ten, or all when there are fewer *)
LastN(order) == Slice(order, IF Len(order) > TopN THEN Len(order) - TopN ELSE 0, Len(order))

(* order[::-1] *)
Reversed(order) == [k \in 1..Len(order) |-> order[Len(order) + 1 - k]]

(* get_colors of an image whose conversion to RGBA and resize to the sampling grid
   (line 10, PIL's work) gave `resized`; order is what counts.argsort() returned *)
get_colors(resized, order) ==
    LET rgb_filtered == Filtered(Flatten(resized.arr))
    IN  IF Len(rgb_filtered) = 0
        THEN Return(<<>>)
        ELSE LET unique      == Unique(rgb_filtered)
                 top_indices == Reversed(LastN(order))
             IN  Return([k \in 1..Len(top_indices) |->
                           Str(FormatHexColor(unique[top_indices[k]][1],
                                              unique[top_indices[k]][2],
                                              unique[top_indices[k]][3]))])

(* the orders counts.argsort() can return in get_colors(resized) *)
ArgsortOf(resized) == ArgsortResults(Counts(Filtered(Flatten(resized.arr))))

(* ", ".join(colors) (line 83) *)
RECURSIVE Join(_)
Join(colors) ==
    IF colors = <<>> THEN <<>>
    ELSE IF Len(colors) = 1 THEN colors[1].s
    ELSE colors[1].s \o <<",", " ">> \o Join(Tail(colors))

(* the warning of line 82; the Japanese text is written here in ASCII *)
NoColorsText == <<"n", "o", " ", "v", "a", "l", "i", "d", " ", "c", "o", "l", "o", "r", "s", " ", "f", "o", "u", "n", "d">>

(* gr.update(choices=..., value=...) *)
Update(choices, value) == [choices |-> choices, value |-> value]

extract_and_return_choices(resized, order) ==
    LET colors == get_colors(resized, order).value
    IN  IF colors = <<>>
        THEN Return(<<Update(<<>>, None), Str(NoColorsText)>>)
        ELSE Return(<<Update(colors, colors[1]), Str(Join(colors))>>)

----------------------------------------------------------------------------
(* The calls of get_colors and extract_and_return_choices that are checked.  The
   resized array is square, GridSide pixels a side (100 in the source, line 10).
   It holds the first n of SampleColors, the i-th (i + 1) \div 2 times and the one
   numbered `extra` once more, with alpha 255 and 128 in turn, and the pad pixel
   in every other cell. *)

SampleColors ==
    << <<255, 0, 0>>, <<0, 255, 0>>, <<0, 0, 255>>, <<255, 255, 0>>,
       <<0, 0, 0>>, <<255, 255, 255>>, <<18, 52, 86>>, <<18, 52, 85>>,
       <<18, 53, 0>>, <<1, 2, 3>>, <<200, 100, 50>>, <<128, 128, 128>> >>

(* transparent black, a transparent colour that no opaque pixel has, the first
   sample colour made transparent, the second sample colour opaque *)
PadPixels == { <<0, 0, 0, 0>>, <<9, 9, 9, 0>>, <<255, 0, 0, 0>>, <<0, 255, 0, 255>> }

GridSide == 7

Multiplicity(i, extra) == ((i + 1) \div 2) + (IF i = extra THEN 1 ELSE 0)

Run(i, m) == [k \in 1..m |-> SampleColors[i] \o <<IF k % 2 = 1 THEN 255 ELSE 128>>]

RECURSIVE Runs(_, _)
Runs(n, extra) ==
    IF n = 0 THEN <<>> ELSE Runs(n - 1, extra) \o Run(n, Multiplicity(n, extra))

SampleForms ==
    {f \in [n : 0..Len(SampleColors), extra : 0..Len(SampleColors),
            pad : PadPixels, reversed : BOOLEAN] : f.extra <= f.n}

ResizedOf(f) ==
    LET runs   == Runs(f.n, f.extra)
        cells  == GridSide * GridSide
        padded == [k \in 1..cells |-> IF k <= Len(runs) THEN runs[k] ELSE f.pad]
        flat   == IF f.reversed THEN Reversed(padded) ELSE padded
    IN  Image([i \in 1..GridSide |-> [j \in 1..GridSide |-> flat[(i - 1) * GridSide + j]]])

InitSample ==
    /\ pc = "call"
    /\ fn \in {"get_colors", "extract_and_return_choices"}
    /\ form \in SampleForms
    /\ args = [image |-> ResizedOf(form)]
    /\ ret = NoResult

GetColors ==
    /\ pc = "call"
    /\ fn = "get_colors"
    /\ \E order \in ArgsortOf(args.image) : ret' = get_colors(args.image, order)
    /\ pc' = "done"
    /\ UNCHANGED <<fn, args, form>>

ExtractAndReturnChoices ==
    /\ pc = "call"
    /\ fn = "extract_and_return_choices"
    /\ \E order \in ArgsortOf(args.image) :
          ret' = extract_and_return_choices(args.image, order)
    /\ pc' = "done"
    /\ UNCHANGED <<fn, args, form>>

NextSample == GetColors \/ ExtractAndReturnChoices

SpecSample == InitSample /\ [][NextSample]_vars

----------------------------------------------------------------------------
(* process (lines 62-76) *)

(* gr.File(value=tmp_path, visible=True) *)
File(visible) == [t |-> "File", visible |-> visible]

(* gr.Textbox(value=..., visible=...) *)
Textbox(value, visible) == [t |-> "Textbox", value |-> value, visible |-> visible]

(* the text before str(e) in line 76, written here in ASCII *)
ErrorText == <<"e", "r", "r", "o", "r", ":", " ">>

(* a variant of CaughtByExcept: except ValueError *)
CaughtValueErrorOnly(exc) == exc = "ValueError"

(* the exception classes `except Exception` (line 75) catches: every class the
   body can raise derives from Exception *)
CaughtByExcept(exc) ==
    exc \in {"ValueError", "TypeError", "AttributeError", "OverflowError", "OSError"}

(* lines 69-73, once replace_color_with_tolerance is through: the PNG is written
   to a temporary file and the three outputs are returned.  save_ok says whether
   the write succeeds. *)
SaveAndReturn(result, save_ok) ==
    IF Raised(result) THEN result
    ELSE IF ~save_ok THEN Raise("OSError", <<>>)
    ELSE Return(<<result.value, File(TRUE), Textbox(<<>>, FALSE)>>)

(* lines 67-73, once color_to is parsed *)
ReplaceAndSave(image, color_from_hex, color_to_hex, tolerance, overflow, save_ok) ==
    IF Raised(color_to_hex) THEN color_to_hex
    ELSE SaveAndReturn(replace_color_with_tolerance(image, color_from_hex.value,
                                                    color_to_hex.value, tolerance,
                                                    overflow),
                       save_ok)

(* lines 65-73, once selected_color is parsed *)
ParseToAndReplace(image, color_from_hex, color_to, tolerance, overflow, save_ok) ==
    IF Raised(color_from_hex) THEN color_from_hex
    ELSE ReplaceAndSave(image, color_from_hex, parse_color_code(color_to), tolerance,
                        overflow, save_ok)

(* the body of the try statement (lines 64-73): the first statement that raises
   ends it *)
TryBody(image, selected_color, color_to, tolerance, overflow, save_ok) ==
    ParseToAndReplace(image, parse_color_code(selected_color), color_to, tolerance,
                      overflow, save_ok)

(* except Exception as e (lines 75 and 76) around a body that ended as `body` *)
ExceptException(body) ==
    IF Raised(body) /\ CaughtByExcept(body.exc)
    THEN Return(<<None, None, Textbox(ErrorText \o body.msg, TRUE)>>)
    ELSE body

process(image, selected_color, color_to, tolerance, overflow, save_ok) ==
    ExceptException(TryBody(image, selected_color, color_to, tolerance, overflow, save_ok))

----------------------------------------------------------------------------
(* The calls of process that are checked: the image input empty or filled, the
   dropdown empty or holding a colour text, the colour picker's text in either
   notation, well-formed or not. *)

SelectedColors ==
    {None} \cup {Str(s) : s \in
    { <<"#", "0", "0", "0", "0", "0", "0">>,
      <<"#", "z", "z", "z", "z", "z", "z">>,
      <<"r", "g", "b", "(", "0", ",", " ", "0", ",", " ", "0", ")">>,
      <<"n", "o", "t", "-", "a", "-", "c", "o", "l", "o", "r">>,
      <<"#", "-", "1", "-", "1", "-", "1">>,
      <<"r", "g", "b", "(", "3", "0", "0", ",", " ", "0", ",", " ", "0", ")">> }}

PickedColors ==
    {Str(s) : s \in
    { <<"#", "0", "0", "0", "0", "f", "f">>,
      <<"r", "g", "b", "a", "(", "0", ",", " ", "0", ",", " ", "2", "5", "5", ",", " ", "1", ")">>,
      <<"#", "z", "z", "z", "z", "z", "z">>,
      <<"#", "-", "1", "-", "1", "-", "1">> }}

ProcessPixels == { <<0, 0, 0, 255>>, <<3, 4, 0, 255>>, <<3, 4, 0, 0>>, <<255, 0, 0, 128>> }

ProcessImages ==
    {None} \cup {ImageOf(f) : f \in [h : 1..MaxHeight, w : 1..MaxWidth,
                                   p : ProcessPixels, q : ProcessPixels]}

InitProcess ==
    /\ pc = "call"
    /\ fn = "process"
    /\ form = "inputs"
    /\ args \in [image : ProcessImages, selected_color : SelectedColors,
                 color_to : PickedColors, tolerance : {0, 5, 100}]
    /\ ret = NoResult

Process ==
    /\ pc = "call"
    /\ fn = "process"
    /\ \E overflow \in OverflowPolicies, save_ok \in BOOLEAN :
          ret' = process(args.image, args.selected_color, args.color_to,
                         args.tolerance, overflow, save_ok)
    /\ pc' = "done"
    /\ UNCHANGED <<fn, args, form>>

NextProcess == Process

SpecProcess == InitProcess /\ [][NextProcess]_vars

(* every call *)
Init == InitParse \/ InitReplace \/ InitSample \/ InitProcess

Next == ParseColorCode \/ ReplaceColorWithTolerance \/ GetColors
            \/ ExtractAndReturnChoices \/ Process

Spec == Init /\ [][Next]_vars

----------------------------------------------------------------------------
(* What the properties are stated with.  None of it is used by the model of the
   code above. *)

IsLowerHex(c) == \E i \in 1..16 : HexChars[i] = c

(* "#" and six lowercase hexadecimal digits *)
IsCanonicalText(s) == Len(s) = 7 /\ s[1] = "#" /\ \A k \in 2..7 : IsLowerHex(s[k])

(* the two hexadecimal digits of a byte *)
ByteHex(n) == <<HexChars[(n \div 16) + 1], HexChars[(n % 16) + 1]>>

HexText(rgb) == <<"#">> \o ByteHex(rgb[1]) \o ByteHex(rgb[2]) \o ByteHex(rgb[3])

(* the squared Euclidean distance of two RGB triples *)
EuclidSq(u, v) ==
    (u[1] - v[1]) * (u[1] - v[1]) + (u[2] - v[2]) * (u[2] - v[2])
        + (u[3] - v[3]) * (u[3] - v[3])

Done(f) == pc = "done" /\ fn = f

(* rgb(...) or rgba(...) with a comma and optional whitespace between the
   components and a closing parenthesis, whatever the components are *)
IsFunctionalNotation(f) ==
    /\ f.kind = "func"
    /\ f.prefix \in { <<"r", "g", "b", "(">>, <<"r", "g", "b", "a", "(">> }
    /\ f.sep \in { <<",">>, <<",", " ">>, <<",", "\t", " ">> }
    /\ f.tail \in { <<")">>, <<",", " ", "0", ".", "5", ")">> }

HasNumericChannels(f) == f.r.numeric /\ f.g.numeric /\ f.b.numeric

HasByteChannels(f) == f.r.val <= 255 /\ f.g.val <= 255 /\ f.b.val <= 255

(* a string of seven characters that starts with "#" *)
IsHashNotation(color) == IsStr(color) /\ Len(color.s) = 7 /\ color.s[1] = "#"

EndsWith(s, suffix) ==
    Len(suffix) <= Len(s) /\ SubSeq(s, Len(s) - Len(suffix) + 1, Len(s)) = suffix

SameShape(a, b) ==
    DOMAIN a = DOMAIN b /\ \A i \in DOMAIN a : DOMAIN a[i] = DOMAIN b[i]

Positions(a) == UNION {{<<i, j>> : j \in DOMAIN a[i]} : i \in DOMAIN a}

(* the pixel of the input, and of the returned image, at a position *)
InPixel(pos) == args.image.arr[pos[1]][pos[2]]

OutPixel(pos) == ret.value.arr[pos[1]][pos[2]]

(* Euclidean distance to from_color <= tolerance and alpha > 0 *)
Qualifies(px) ==
    /\ EuclidSq(RGB(px), form.from.rgb) <= args.tolerance * args.tolerance
    /\ px[4] > 0

CanonicalColors == form.from.canonical /\ form.to.canonical

----------------------------------------------------------------------------
(* C1: with canonical colours, replace_color_with_tolerance returns an image in
   which a pixel holds to_color's R, G, B and its own alpha if its Euclidean RGB
   distance to from_color is <= tolerance and its alpha is > 0, and is the input's
   pixel otherwise; a pixel at distance exactly tolerance is replaced. *)
C1_ReplacesExactlyQualifying ==
    (Done("replace_color_with_tolerance") /\ CanonicalColors) =>
        /\ Returned(ret)
        /\ SameShape(args.image.arr, ret.value.arr)
        /\ \A pos \in Positions(args.image.arr) :
              OutPixel(pos) = IF Qualifies(InPixel(pos))
                              THEN form.to.rgb \o <<InPixel(pos)[4]>>
                              ELSE InPixel(pos)

(* #000000 to #0000ff at tolerance 5: the pixel at distance 5 is replaced and the
   one at distance sqrt(26) beside it is kept *)
C1_Witness ==
    /\ Done("replace_color_with_tolerance")
    /\ Returned(ret)
    /\ form.from.rgb = <<0, 0, 0>> /\ form.to.rgb = <<0, 0, 255>> /\ CanonicalColors
    /\ args.tolerance = 5
    /\ form.image.w = 2
    /\ InPixel(<<1, 1>>) = <<3, 4, 0, 255>> /\ OutPixel(<<1, 1>>) = <<0, 0, 255, 255>>
    /\ InPixel(<<1, 2>>) = <<3, 4, 1, 255>> /\ OutPixel(<<1, 2>>) = <<3, 4, 1, 255>>

(* C2: the image replace_color_with_tolerance returns has the input's dimensions
   and, at every position, the input's alpha. *)
C2_ShapeAndAlphaKept ==
    (Done("replace_color_with_tolerance") /\ Returned(ret)) =>
        /\ SameShape(args.image.arr, ret.value.arr)
        /\ \A pos \in Positions(args.image.arr) : OutPixel(pos)[4] = InPixel(pos)[4]

(* a pixel of alpha 128 was recoloured and still has alpha 128 *)
C2_Witness ==
    /\ Done("replace_color_with_tolerance")
    /\ Returned(ret)
    /\ form.image.h = 2 /\ form.image.w = 2
    /\ \E pos \in Positions(args.image.arr) :
          /\ InPixel(pos)[4] = 128
          /\ RGB(OutPixel(pos)) # RGB(InPixel(pos))
          /\ OutPixel(pos)[4] = 128

(* C3: a pixel whose alpha is 0 keeps its RGB in the image that
   replace_color_with_tolerance returns, also when it is within tolerance of
   from_color. *)
C3_TransparentKept ==
    (Done("replace_color_with_tolerance") /\ Returned(ret)) =>
        /\ SameShape(args.image.arr, ret.value.arr)
        /\ \A pos \in Positions(args.image.arr) :
              InPixel(pos)[4] = 0 => RGB(OutPixel(pos)) = RGB(InPixel(pos))

(* a transparent pixel within tolerance was kept beside an opaque pixel of the
   same RGB that was recoloured *)
C3_Witness ==
    /\ Done("replace_color_with_tolerance")
    /\ Returned(ret)
    /\ CanonicalColors
    /\ \E pos, other \in Positions(args.image.arr) :
          /\ InPixel(pos)[4] = 0
          /\ EuclidSq(RGB(InPixel(pos)), form.from.rgb) <= args.tolerance * args.tolerance
          /\ RGB(InPixel(pos)) # form.to.rgb
          /\ OutPixel(pos) = InPixel(pos)
          /\ RGB(InPixel(other)) = RGB(InPixel(pos))
          /\ RGB(OutPixel(other)) = form.to.rgb

(* a pixel with alpha > 0 whose distance d to from_color is 0 < d <= tolerance *)
NearButNotEqual(px) ==
    /\ px[4] > 0
    /\ EuclidSq(RGB(px), form.from.rgb) > 0
    /\ EuclidSq(RGB(px), form.from.rgb) <= args.tolerance * args.tolerance

SameColorTwice == CanonicalColors /\ form.from.text = form.to.text

(* C4 as claimed: replacing a colour X by X, at any tolerance in [0, 100], returns
   an image identical to the input. *)
C4_SameColorIsIdentity ==
    (Done("replace_color_with_tolerance") /\ SameColorTwice
        /\ args.tolerance \in 0..100) =>
        Returned(ret) /\ ret.value = args.image

(* C4 as amended: replacing a colour X by X returns an image identical to the
   input exactly when no pixel with alpha > 0 lies at a distance d from X with
   0 < d <= tolerance, so always at tolerance 0. *)
C4_SameColorIdentityUnlessNear ==
    (Done("replace_color_with_tolerance") /\ SameColorTwice) =>
        /\ Returned(ret)
        /\ (ret.value = args.image) <=>
              ~ \E pos \in Positions(args.image.arr) : NearButNotEqual(InPixel(pos))
        /\ args.tolerance = 0 => ret.value = args.image

(* X by X at a tolerance above 0 left an image unchanged that holds an opaque
   pixel of colour X and an opaque pixel farther away than the tolerance *)
C4_Witness ==
    /\ Done("replace_color_with_tolerance")
    /\ SameColorTwice
    /\ Returned(ret)
    /\ args.tolerance > 0
    /\ ret.value = args.image
    /\ \E pos, other \in Positions(args.image.arr) :
          /\ InPixel(pos)[4] > 0 /\ RGB(InPixel(pos)) = form.from.rgb
          /\ InPixel(other)[4] > 0
          /\ EuclidSq(RGB(InPixel(other)), form.from.rgb) > args.tolerance * args.tolerance

----------------------------------------------------------------------------
(* C5 as claimed: every string parse_color_code returns is "#" followed by six
   lowercase hexadecimal digits. *)
C5_ReturnsCanonical ==
    (Done("parse_color_code") /\ Returned(ret)) => IsCanonicalText(ret.value.s)

(* C6: for rgb(r, g, b) and rgba(r, g, b, a) with r, g, b whole or decimal numbers
   in [0, 255], parse_color_code returns "#" and the two lowercase hexadecimal
   digits of each of r, g, b truncated toward zero, whatever the alpha. *)
C6_FunctionalNotationParsed ==
    (Done("parse_color_code") /\ IsFunctionalNotation(form)
        /\ HasNumericChannels(form) /\ HasByteChannels(form)) =>
        ret = Return(Str(HexText(<<form.r.val, form.g.val, form.b.val>>)))

(* rgba(26.5, 4.9, 15.99, 0.5) gave #1a040f *)
C6_Witness ==
    /\ Done("parse_color_code")
    /\ IsFunctionalNotation(form)
    /\ form.prefix = <<"r", "g", "b", "a", "(">>
    /\ form.r.text = <<"2", "6", ".", "5">> /\ form.g.text = <<"4", ".", "9">> /\ form.b.text = <<"1", "5", ".", "9", "9">>
    /\ form.tail = <<",", " ", "0", ".", "5", ")">>
    /\ ret = Return(Str(<<"#", "1", "a", "0", "4", "0", "f">>))

(* C7 as claimed: for an input that is neither a string of seven characters
   starting with "#" nor a complete rgb(...) or rgba(...) with numeric r, g, b,
   parse_color_code raises ValueError with a message that carries the input. *)
C7_OtherInputRaisesValueError ==
    (Done("parse_color_code") /\ ~IsHashNotation(args.color)
        /\ ~(IsFunctionalNotation(form) /\ HasNumericChannels(form))) =>
        /\ Raised(ret)
        /\ ret.exc = "ValueError"
        /\ IsStr(args.color) /\ EndsWith(ret.msg, args.color.s)

----------------------------------------------------------------------------
(* the pixels of the resized array get_colors was called with *)
Cells == Flatten(args.image.arr)

(* the colour texts of the pixels of cells with alpha > 0 *)
OpaqueTexts(cells) ==
    {Str(HexText(RGB(cells[k]))) : k \in {k \in DOMAIN cells : cells[k][4] > 0}}

(* how many pixels of cells with alpha > 0 have the colour a text names *)
PixelCount(cells, color) ==
    Cardinality({k \in DOMAIN cells : cells[k][4] > 0 /\ Str(HexText(RGB(cells[k]))) = color})

Min(a, b) == IF a < b THEN a ELSE b

Elements(list) == {list[k] : k \in DOMAIN list}

(* C8: every colour get_colors returns is the RGB of a pixel of the resized grid
   with alpha > 0; when every pixel has alpha 0 the list is empty, and
   extract_and_return_choices gives no choices, no value and the warning; when
   some pixel has alpha > 0 it gives the palette. *)
C8_ColorsComeFromOpaquePixels ==
    LET opaque == OpaqueTexts(Cells)
    IN  /\ Done("get_colors") =>
              /\ Returned(ret)
              /\ Elements(ret.value) \subseteq opaque
              /\ opaque = {} => ret.value = <<>>
        /\ Done("extract_and_return_choices") =>
              /\ Returned(ret)
              /\ Elements(ret.value[1].choices) \subseteq opaque
              /\ opaque = {} =>
                    ret.value = <<[choices |-> <<>>, value |-> None], Str(NoColorsText)>>
              /\ opaque # {} =>
                    /\ ret.value[1].choices # <<>>
                    /\ ret.value[1].value = ret.value[1].choices[1]
                    /\ ret.value[2] # Str(NoColorsText)

(* get_colors returned colours for a grid that also holds transparent pixels of a
   colour that no opaque pixel has *)
C8_Witness ==
    /\ Done("get_colors")
    /\ Returned(ret)
    /\ Len(ret.value) >= 3
    /\ LET cells == Cells
       IN  \E k \in DOMAIN cells :
              cells[k][4] = 0 /\ Str(HexText(RGB(cells[k]))) \notin OpaqueTexts(cells)

(* the pixel count of every colour of cells that has a pixel with alpha > 0 *)
PixelCounts(cells) == [c \in OpaqueTexts(cells) |-> PixelCount(cells, c)]

(* list holds min(10, number of colours counted) colours, none twice, in order of
   non-increasing count, and no colour left out has a higher count than one in it *)
IsTopByCount(list, count) ==
    /\ Elements(list) \subseteq DOMAIN count
    /\ Len(list) = Min(TopN, Cardinality(DOMAIN count))
    /\ \A j, k \in DOMAIN list : j # k => list[j] # list[k]
    /\ \A j, k \in DOMAIN list : j < k => count[list[j]] >= count[list[k]]
    /\ \A c \in DOMAIN count \ Elements(list) :
          \A k \in DOMAIN list : count[c] <= count[list[k]]

(* C9: the list get_colors returns has min(10, number of distinct RGB triples
   among the pixels with alpha > 0) entries, no entry twice, in order of
   non-increasing pixel count, and no omitted colour has a higher count than a
   returned one. *)
C9_TopTenByCount ==
    Done("get_colors") => Returned(ret) /\ IsTopByCount(ret.value, PixelCounts(Cells))

(* more than ten colours, ten returned, and a colour left out that has as many
   pixels as the last one returned and fewer than the first *)
C9_Witness ==
    /\ Done("get_colors")
    /\ Returned(ret)
    /\ Len(ret.value) = TopN
    /\ LET cells  == Cells
           opaque == OpaqueTexts(cells)
       IN  /\ Cardinality(opaque) > TopN
           /\ PixelCount(cells, ret.value[1]) > PixelCount(cells, ret.value[TopN])
           /\ \E c \in opaque \ Elements(ret.value) :
                 PixelCount(cells, c) = PixelCount(cells, ret.value[TopN])

----------------------------------------------------------------------------
(* the two outcomes of process *)
IsSuccess(out) ==
    /\ IsImage(out[1])
    /\ out[2] = File(TRUE)
    /\ out[3].t = "Textbox" /\ ~out[3].visible

IsFailure(out) ==
    /\ IsNone(out[1])
    /\ IsNone(out[2])
    /\ out[3].t = "Textbox" /\ out[3].visible /\ out[3].value # <<>>

(* C10: process raises nothing and returns either an image, a visible file and a
   hidden error box, or no image, no file and a visible error message; a success
   returns the input's dimensions; #zzzzzz as either colour, or no selected
   colour, ends in the failure. *)
C10_SuccessOrFailure ==
    Done("process") =>
        /\ Returned(ret)
        /\ IsSuccess(ret.value) \/ IsFailure(ret.value)
        /\ ~(IsSuccess(ret.value) /\ IsFailure(ret.value))
        /\ IsSuccess(ret.value) =>
              /\ IsImage(args.image)
              /\ SameShape(args.image.arr, ret.value[1].arr)
        /\ (\/ IsNone(args.selected_color)
            \/ args.selected_color = Str(<<"#", "z", "z", "z", "z", "z", "z">>)
            \/ args.color_to = Str(<<"#", "z", "z", "z", "z", "z", "z">>)) => IsFailure(ret.value)

(* an image and #zzzzzz as the selected colour ended in the failure *)
C10_Witness ==
    /\ Done("process")
    /\ IsImage(args.image)
    /\ args.selected_color = Str(<<"#", "z", "z", "z", "z", "z", "z">>)
    /\ args.color_to = Str(<<"#", "0", "0", "0", "0", "f", "f">>)
    /\ Returned(ret)
    /\ IsFailure(ret.value)

=============================================================================
